---- MODULE Spec2Model ----
(***************************************************************************)
(* Model of notebooks/basic_model_specification.ipynb: the notebook that   *)
(* builds the conditions / onsets / durations lists of a first-level fMRI  *)
(* model from an event table and packs them into a Bunch.                  *)
(*                                                                         *)
(* The state is the notebook kernel's namespace (trialinfo, conditions,    *)
(* onsets, durations, subject_info), the cell that was executed last and   *)
(* the exception that cell raised.  One action per state-changing cell.    *)
(*                                                                         *)
(* Encoding of cell values.  A value of the onset / duration column is an  *)
(* integer: v >= 0 is the number v (15.0 is written 15, Python compares    *)
(* them equal); a negative integer stands for a non-numeric object (a text *)
(* cell of an object-dtype column).  A trial_type cell that is empty in    *)
(* the file is the missing value NaN, written MissingLabel.                *)
(*                                                                         *)
(* groupRuns is a history variable: how often cell 11 has been executed,   *)
(* counted up to MaxRuns.  No cell reads it.                               *)
(***************************************************************************)
EXTENDS Integers, Sequences, FiniteSets, TLC

VARIABLES trialinfo, conditions, onsets, durations, subject_info, lastCell, raised,
          groupRuns

vars ==
    <<trialinfo, conditions, onsets, durations, subject_info, lastCell, raised, groupRuns>>

\* Longest generated event table (rows).
MaxRows == 3

\* Executions of cell 11 that groupRuns tells apart.
MaxRuns == 2

\* ------------------------------------------------------------------ data

\* The trial_type labels of the event file, in the order Python orders
\* strings (by code point): "Finger" < "Foot" < "Lips".
LabelOrder == <<"Finger", "Foot", "Lips">>

\* An empty trial_type cell: pandas reads it as NaN.
MissingLabel == "NaN"

\* A non-numeric object in the onset / duration column.
NonNumeric == 0 - 1

IsNumeric(v) == v >= 0

Row(o, d, l) == [onset |-> o, duration |-> d, trial_type |-> l]

\* Rows the generated tables are made of: two rows of one condition with
\* different durations, a row with an empty trial_type cell and a row of
\* another condition whose onset and duration cells are not numbers.
TrialRecords ==
    { Row(10, 15, "Finger"),
      Row(100, 20, "Finger"),
      Row(70, 15, MissingLabel),
      Row(NonNumeric, NonNumeric, "Foot") }

\* trialinfo.head(): the first five rows of task-fingerfootlips_events.tsv.
EventFileHead ==
    << Row(10, 15, "Finger"), Row(40, 15, "Foot"), Row(70, 15, "Lips"),
       Row(100, 15, "Finger"), Row(130, 15, "Foot") >>

SeqsUpTo(S, n) == UNION { [1..k -> S] : k \in 0..n }

\* The tables read_table can return: every table of at most MaxRows rows
\* over TrialRecords (the empty table included), and the file's head.
Tables == SeqsUpTo(TrialRecords, MaxRows) \cup {EventFileHead}

\* Bunch(conditions=..., onsets=..., durations=...)
Bunch(c, o, d) == [conditions |-> c, onsets |-> o, durations |-> d]

\* Cell 1: the hand-written simple example.
SimpleConditions == <<"faces", "houses", "scrambled pix">>
SimpleOnsets == << <<0, 30, 60, 90>>, <<10, 40, 70, 100>>, <<20, 50, 80, 110>> >>
SimpleDurations == << <<3>>, <<3>>, <<3>> >>

\* --------------------------------------------------------------- groupby

\* Faulty variant of GroupKeys: the keys in order of first appearance (what
\* groupby(..., sort=False) would yield).
RECURSIVE FirstSeenKeys(_)
FirstSeenKeys(t) ==
    IF t = <<>> THEN <<>>
    ELSE LET n == Len(t)
             before == FirstSeenKeys(SubSeq(t, 1, n - 1))
             l == t[n].trial_type
         IN IF l = MissingLabel \/ \E i \in 1..Len(before) : before[i] = l
            THEN before
            ELSE Append(before, l)

\* The group keys of trialinfo.groupby('trial_type'): the distinct labels,
\* NaN excluded, sorted (sort=True is the default of groupby).
GroupKeys(t) ==
    SelectSeq(LabelOrder, LAMBDA l : \E i \in 1..Len(t) : t[i].trial_type = l)

\* Faulty variant of GroupRows: the rows of the key in reverse order.
RowsReversed(t, key) ==
    LET rows == SelectSeq(t, LAMBDA r : r.trial_type = key)
    IN [k \in 1..Len(rows) |-> rows[Len(rows) + 1 - k]]

\* Faulty variant of GroupRows: the last row of a larger group is lost.
RowsWithoutLast(t, key) ==
    LET rows == SelectSeq(t, LAMBDA r : r.trial_type = key)
    IN IF Len(rows) > 1 THEN SubSeq(rows, 1, Len(rows) - 1) ELSE rows

\* The sub-frame of a group: the rows of the key, in their order in the frame.
GroupRows(t, key) == SelectSeq(t, LAMBDA r : r.trial_type = key)

\* trialinfo.groupby('trial_type'): the sequence of (key, sub-frame) pairs.
groupby(t) ==
    LET keys == GroupKeys(t)
    IN [i \in 1..Len(keys) |-> <<keys[i], GroupRows(t, keys[i])>>]

\* Faulty variant of OnsetList: distinct onsets come out in ascending order.
OnsetSorted(frame) ==
    LET vals == {frame[k].onset : k \in 1..Len(frame)}
        nth(k) == CHOOSE v \in vals : Cardinality({w \in vals : w < v}) = k - 1
    IN IF Cardinality(vals) = Len(frame)
       THEN [k \in 1..Len(frame) |-> nth(k)]
       ELSE [k \in 1..Len(frame) |-> frame[k].onset]

\* group[1].onset.tolist() / group[1].duration.tolist(): the column's values
\* as a list, in row order; objects of an object column are returned as is.
OnsetList(frame) == [k \in 1..Len(frame) |-> frame[k].onset]

\* Faulty variant of DurationList: one duration per condition, as in the
\* simple example of cell 1.
DurationScalar(frame) == << frame[1].duration >>

DurationList(frame) == [k \in 1..Len(frame) |-> frame[k].duration]

\* ---------------------------------------------------------------- cell 11

\* Faulty variants of InitLists: the lists (or conditions alone) are not
\* rebound and keep what they held before.
KeepLists(c, o, d) == Bunch(c, o, d)

KeepConditions(c, o, d) == Bunch(c, <<>>, <<>>)

\* conditions = [] ; onsets = [] ; durations = []  (the names are rebound,
\* whatever they held before).
InitLists(c, o, d) == Bunch(<<>>, <<>>, <<>>)

\* Faulty variant of LoopBody: durations is appended to in the first
\* iteration only.
AppendNoDuration(acc, group) ==
    Bunch(Append(acc.conditions, group[1]),
          Append(acc.onsets, OnsetList(group[2])),
          IF Len(acc.durations) = 0
          THEN Append(acc.durations, DurationList(group[2]))
          ELSE acc.durations)

\* One iteration of the for loop: three appends.
LoopBody(acc, group) ==
    Bunch(Append(acc.conditions, group[1]),
          Append(acc.onsets, OnsetList(group[2])),
          Append(acc.durations, DurationList(group[2])))

\* for group in trialinfo.groupby('trial_type'): ...
RECURSIVE Loop(_, _)
Loop(acc, groups) ==
    IF groups = <<>> THEN acc
    ELSE Loop(LoopBody(acc, Head(groups)), Tail(groups))

\* The lists cell 11 leaves bound when run on table t with the names
\* conditions, onsets, durations bound to c, o, d.
Cell11Lists(c, o, d, t) == Loop(InitLists(c, o, d), groupby(t))

\* Grouping as a function of the table alone (cell 11 in a fresh kernel).
Group(t) == Cell11Lists(<<>>, <<>>, <<>>, t)

\* -------------------------------------------------------------- the cells

\* After the notebook's cells up to read_table ran in order.
Init ==
    /\ trialinfo \in Tables
    /\ conditions = SimpleConditions
    /\ onsets = SimpleOnsets
    /\ durations = SimpleDurations
    /\ subject_info = Bunch(SimpleConditions, SimpleOnsets, SimpleDurations)
    /\ lastCell = "read_table"
    /\ raised = "none"
    /\ groupRuns = 0

\* Cell 1: the simple example.
Cell1 ==
    /\ conditions' = SimpleConditions
    /\ onsets' = SimpleOnsets
    /\ durations' = SimpleDurations
    /\ subject_info' = Bunch(SimpleConditions, SimpleOnsets, SimpleDurations)
    /\ lastCell' = "simple"
    /\ raised' = "none"
    /\ UNCHANGED <<trialinfo, groupRuns>>

\* Cell 7: trialinfo = pd.read_table(...).
ReadTable ==
    /\ \E t \in Tables : trialinfo' = t
    /\ lastCell' = "read_table"
    /\ raised' = "none"
    /\ UNCHANGED <<conditions, onsets, durations, subject_info, groupRuns>>

\* Cell 11: split the table by condition and build the Bunch.  Nothing in
\* the cell raises for a frame that has the three columns.
Cell11 ==
    LET lists == Cell11Lists(conditions, onsets, durations, trialinfo)
    IN /\ conditions' = lists.conditions
       /\ onsets' = lists.onsets
       /\ durations' = lists.durations
       /\ subject_info' = Bunch(lists.conditions, lists.onsets, lists.durations)
       /\ lastCell' = "group"
       /\ raised' = "none"
       /\ groupRuns' = IF groupRuns < MaxRuns THEN groupRuns + 1 ELSE groupRuns
       /\ UNCHANGED trialinfo

Next == Cell1 \/ ReadTable \/ Cell11

Spec == Init /\ [][Next]_vars

\* ------------------------------------------------------------ properties

\* Cell 11 was the last cell executed: the lists are a grouping of trialinfo.
Grouped == lastCell = "group"

\* The rows of table t whose trial_type is l, as positions.
IndexSet(t, l) == {j \in 1..Len(t) : t[j].trial_type = l}

\* The position in t of the k-th row whose trial_type is l.
KthIndex(t, l, k) ==
    CHOOSE j \in IndexSet(t, l) : Cardinality({m \in IndexSet(t, l) : m <= j}) = k

\* The labels that occur in t (NaN is no label).
LabelsOf(t) == {t[j].trial_type : j \in 1..Len(t)} \ {MissingLabel}

Rank(l) == CHOOSE i \in 1..Len(LabelOrder) : LabelOrder[i] = l

C2_GroupSizes ==
    Grouped =>
        \A i \in 1..Len(conditions) :
            /\ i \in DOMAIN onsets /\ i \in DOMAIN durations
            /\ Len(onsets[i]) = Cardinality(IndexSet(trialinfo, conditions[i]))
            /\ Len(durations[i]) = Len(onsets[i])

\* A grouping with two conditions, one of them with two rows.
C2_Witness ==
    /\ Grouped
    /\ Len(conditions) = 2
    /\ \E i \in 1..2 : Len(onsets[i]) = 2

\* C3: onsets[i][k] and durations[i][k] are the onset and the duration of
\* the k-th input row whose trial_type is conditions[i].
C3_RowOrderKept ==
    Grouped =>
        \A i \in 1..Len(conditions) :
            \A k \in 1..Cardinality(IndexSet(trialinfo, conditions[i])) :
                LET row == trialinfo[KthIndex(trialinfo, conditions[i], k)]
                IN /\ k \in DOMAIN onsets[i] /\ onsets[i][k] = row.onset
                   /\ k \in DOMAIN durations[i] /\ durations[i][k] = row.duration

\* A condition whose rows come in descending onset order in the input, with
\* different durations, and with a row of another condition between them.
C3_Witness ==
    /\ Grouped
    /\ Len(trialinfo) = 3
    /\ trialinfo[1].trial_type = trialinfo[3].trial_type
    /\ trialinfo[2].trial_type = "Foot"
    /\ \E i \in 1..Len(conditions) :
           /\ Len(onsets[i]) = 2
           /\ onsets[i][1] > onsets[i][2]
           /\ durations[i][1] # durations[i][2]

\* C4: after grouping, conditions, onsets and durations have equal length.
C4_EqualLengths ==
    Grouped => Len(conditions) = Len(onsets) /\ Len(onsets) = Len(durations)

\* A grouping with three conditions.
C4_Witness == Grouped /\ Len(conditions) = 3 /\ Len(durations) = 3

\* C5 as stated: when a row lacks a trial_type, cell 11 ends with
\* MalformedRecordError (the row is not silently skipped).
C5_MissingTypeRaises ==
    (Grouped /\ \E j \in 1..Len(trialinfo) : trialinfo[j].trial_type = MissingLabel)
        => raised = "MalformedRecordError"

\* C6: the five rows of the example give exactly the three lists of the claim.
C6_Example ==
    (Grouped /\ trialinfo = EventFileHead) =>
        /\ conditions = <<"Finger", "Foot", "Lips">>
        /\ onsets = << <<10, 100>>, <<40, 130>>, <<70>> >>
        /\ durations = << <<15, 15>>, <<15, 15>>, <<15>> >>
        /\ subject_info = Bunch(conditions, onsets, durations)

\* The example has been grouped.
C6_Witness == Grouped /\ trialinfo = EventFileHead /\ Len(onsets) = 3

\* C7: grouping the empty table succeeds and leaves three empty lists.
C7_EmptyInput ==
    (Grouped /\ trialinfo = <<>>) =>
        /\ raised = "none"
        /\ conditions = <<>> /\ onsets = <<>> /\ durations = <<>>
        /\ subject_info = Bunch(<<>>, <<>>, <<>>)

\* The empty table has been grouped.
C7_Witness == Grouped /\ trialinfo = <<>> /\ raised = "none"

\* The rows of model m put back at the positions their conditions have in
\* table t: the k-th row of t with label l becomes entry k of l's lists.
Flatten(m, t) ==
    LET in(j) == \E i \in 1..Len(m.conditions) : m.conditions[i] = t[j].trial_type
        idx == SelectSeq([j \in 1..Len(t) |-> j], in)
        entry(j) ==
            LET l == t[j].trial_type
                i == CHOOSE x \in 1..Len(m.conditions) : m.conditions[x] = l
                k == Cardinality({n \in 1..j : t[n].trial_type = l})
            IN Row(m.onsets[i][k], m.durations[i][k], l)
    IN [p \in 1..Len(idx) |-> entry(idx[p])]

\* C8: grouping the flattened result of a grouping gives that result again.
C8_Idempotent ==
    Grouped => Group(Flatten(subject_info, trialinfo)) = subject_info

\* A grouping that dropped a row and kept two rows of one condition whose
\* onsets descend: its flattening is another table than the input.
C8_Witness ==
    /\ Grouped
    /\ Flatten(subject_info, trialinfo) # trialinfo
    /\ \E i \in 1..Len(onsets) : Len(onsets[i]) = 2 /\ onsets[i][1] > onsets[i][2]

\* C9: cell 11 leaves trialinfo as it is, and what it produces is what
\* grouping the same table produces in a fresh kernel, whatever the lists
\* held before (the simple example, or an earlier grouping of any table);
\* executed again on the same table it produces the same lists.
C9_Pure ==
    /\ [](Grouped => /\ Bunch(conditions, onsets, durations) = Group(trialinfo)
                     /\ subject_info = Group(trialinfo))
    /\ [][lastCell' = "group" => trialinfo' = trialinfo]_vars
    /\ [][(Grouped /\ lastCell' = "group") =>
              /\ subject_info' = subject_info
              /\ <<conditions, onsets, durations>>' = <<conditions, onsets, durations>>]_vars

\* Cell 11 has been executed at least twice, the last time on a table with
\* fewer conditions than the lists bound before the first execution held.
C9_Witness ==
    /\ Grouped
    /\ groupRuns >= 2
    /\ trialinfo # <<>>
    /\ Len(conditions) < Len(SimpleConditions)

\* C10 as stated: when an onset or a duration is not a number, cell 11 ends
\* with a TypeError and no list holds the value.
C10_NonNumericRaises ==
    (Grouped /\ \E j \in 1..Len(trialinfo) :
                    ~IsNumeric(trialinfo[j].onset) \/ ~IsNumeric(trialinfo[j].duration))
        => /\ raised = "TypeError"
           /\ \A i \in 1..Len(onsets) : \A k \in 1..Len(onsets[i]) : IsNumeric(onsets[i][k])

====
